---- MODULE Spec2Model ----
(***************************************************************************)
(* A model of sobj.hpp: the OBJ loader (OBJLoader), its nested material    *)
(* file loader (MTLLoader), the numeric parser (MathParser) and the logger *)
(* (sobjLogger).  Text is modelled as sequences of one-character strings   *)
(* and a std::stringstream as a record [buf, fail]; a file is the sequence *)
(* of lines the line actions are given, one per step.                      *)
(***************************************************************************)
EXTENDS Integers, Sequences, FiniteSets, TLC

\* ------------------------------------------------------------------ bounds
\* Each specification explores files up to its own sizes: the lines of one
\* .obj file, the positions and the face lines of one load, the calls of
\* load() on the loader, the lines of one .mtl file.
MaxLines == 3
MaxPositions == 2
MaxFaceLines == 1
MaxLoads == 1
MaxMtlLines == 2
FacesMaxLines == 5
FacesMaxPositions == 3
FacesMaxFaceLines == 2
GroupsMaxLines == 5
GroupsMaxFaceLines == 2
MaterialsMaxLines == 4
MaterialsMaxMtlLines == 2
LinesMaxLines == 3
LinesMaxPositions == 2
LinesMaxMtlLines == 2
ReloadMaxLoads == 2
ReloadMaxLines == 3
TexturesMaxLines == 2
TexturesMaxMtlLines == 3
\* largest value an indeterminate size_t return is drawn from
MaxUB == 1

Limit(lines, positions, faces, nloads, mtlLines) ==
    [lines |-> lines, positions |-> positions, faces |-> faces, loads |-> nloads,
     mtlLines |-> mtlLines]

\* ------------------------------------------------------- program constants
\* static size_t groupID = 0; never assigned afterwards
groupID == 0

DELIMITER == "/"
SPACE == " "
ON == <<"o", "n">>
OFF == <<"o", "f", "f">>
GROUP_NAME_PREFIX == <<"g", "r", "o", "u", "p">>

\* ---------------------------------------------------------------- strings
Digits == {"0", "1", "2", "3", "4", "5", "6", "7", "8", "9"}

DigitVal(c) ==
    CASE c = "0" -> 0 [] c = "1" -> 1 [] c = "2" -> 2 [] c = "3" -> 3
      [] c = "4" -> 4 [] c = "5" -> 5 [] c = "6" -> 6 [] c = "7" -> 7
      [] c = "8" -> 8 [] c = "9" -> 9

DigitChar(n) ==
    CASE n = 0 -> "0" [] n = 1 -> "1" [] n = 2 -> "2" [] n = 3 -> "3"
      [] n = 4 -> "4" [] n = 5 -> "5" [] n = 6 -> "6" [] n = 7 -> "7"
      [] n = 8 -> "8" [] n = 9 -> "9"

RECURSIVE to_string(_)
to_string(n) ==
    IF n < 10 THEN <<DigitChar(n)>> ELSE to_string(n \div 10) \o <<DigitChar(n % 10)>>

RECURSIVE DecimalValue(_)
DecimalValue(ds) ==
    IF ds = <<>> THEN 0
    ELSE 10 * DecimalValue(SubSeq(ds, 1, Len(ds) - 1)) + DigitVal(ds[Len(ds)])

DropN(b, n) == SubSeq(b, n + 1, Len(b))

starts_with(str, prefix) ==
    Len(str) >= Len(prefix) /\ SubSeq(str, 1, Len(prefix)) = prefix

ends_with(str, suffix) ==
    Len(str) >= Len(suffix)
        /\ SubSeq(str, Len(str) - Len(suffix) + 1, Len(str)) = suffix

\* str.find(sub) != npos
Contains(str, sub) ==
    \E i \in 1..Len(str) : starts_with(DropN(str, i - 1), sub)

RECURSIVE trimLeft(_)
trimLeft(str) ==
    IF str # <<>> /\ Head(str) = SPACE THEN trimLeft(Tail(str)) ELSE str

RECURSIVE trimRight(_)
trimRight(str) ==
    IF str # <<>> /\ str[Len(str)] = SPACE
    THEN trimRight(SubSeq(str, 1, Len(str) - 1)) ELSE str

trim(str) == trimRight(trimLeft(str))

\* ------------------------------------------------------- std::stringstream
Stream(str) == [buf |-> str, fail |-> FALSE]

RECURSIVE TakeWord(_)
TakeWord(b) ==
    IF b # <<>> /\ Head(b) # SPACE THEN <<Head(b)>> \o TakeWord(Tail(b)) ELSE <<>>

RECURSIVE TakeDigits(_)
TakeDigits(b) ==
    IF b # <<>> /\ Head(b) \in Digits THEN <<Head(b)>> \o TakeDigits(Tail(b)) ELSE <<>>

\* stream >> std::string
ReadWord(st) ==
    IF st.fail THEN [val |-> <<>>, st |-> st]
    ELSE LET b == trimLeft(st.buf)
             w == TakeWord(b)
         IN [val |-> w, st |-> [buf |-> DropN(b, Len(w)), fail |-> w = <<>>]]

\* stream >> int and stream >> float, for decimal literals with an optional
\* sign; a failed extraction writes 0
ReadNumber(st) ==
    IF st.fail THEN [val |-> 0, st |-> st]
    ELSE LET b == trimLeft(st.buf)
             signed == b # <<>> /\ Head(b) \in {"-", "+"}
             r == IF signed THEN Tail(b) ELSE b
             ds == TakeDigits(r)
         IN IF ds = <<>>
            THEN [val |-> 0, st |-> [buf |-> r, fail |-> TRUE]]
            ELSE [val |-> IF signed /\ Head(b) = "-"
                          THEN 0 - DecimalValue(ds) ELSE DecimalValue(ds),
                  st |-> [buf |-> DropN(r, Len(ds)), fail |-> FALSE]]

\* stream >> char
ReadChar(st) ==
    IF st.fail THEN [val |-> "?", st |-> st]
    ELSE LET b == trimLeft(st.buf)
         IN IF b = <<>> THEN [val |-> "?", st |-> [buf |-> b, fail |-> TRUE]]
            ELSE [val |-> Head(b), st |-> [buf |-> Tail(b), fail |-> FALSE]]

\* stream.peek()
Peek(st) == IF st.fail \/ st.buf = <<>> THEN "EOF" ELSE Head(st.buf)

\* std::getline(stream, s): fails when it extracts nothing
GetLine(st) ==
    IF st.fail THEN [val |-> <<>>, st |-> st]
    ELSE [val |-> st.buf, st |-> [buf |-> <<>>, fail |-> st.buf = <<>>]]

\* an extraction whose sentry fails leaves its target untouched
SentryFails(st) == st.fail \/ trimLeft(st.buf) = <<>>

\* ------------------------------------------------------------ input lines
\* the lines of the files given to the loader, already trimmed
L_v == <<"v", " ", "1", " ", "2", " ", "3">>
L_vn == <<"v", "n", " ", "0", " ", "0", " ", "1">>
L_vt == <<"v", "t", " ", "0", " ", "1">>
L_f123 == <<"f", " ", "1", " ", "2", " ", "3">>
L_f213 == <<"f", " ", "2", " ", "1", " ", "3">>
L_fneg == <<"f", " ", "-", "1", " ", "-", "2", " ", "-", "3">>
L_fzero == <<"f", " ", "0", " ", "1", " ", "2">>
L_f1234 == <<"f", " ", "1", " ", "2", " ", "3", " ", "4">>
L_f12345 == <<"f", " ", "1", " ", "2", " ", "3", " ", "4", " ", "5">>
L_fvt == <<"f", " ", "1", "/", "3", " ", "2", "/", "2", " ", "3", "/", "1">>
L_fvn == <<"f", " ", "1", "/", "/", "2", " ", "2", "/", "/", "3", " ", "3", "/", "/", "1">>
L_fvtvn ==
    <<"f", " ", "1", "/", "2", "/", "3", " ", "2", "/", "3", "/", "1", " ",
      "3", "/", "1", "/", "2">>
L_qvt ==
    <<"f", " ", "1", "/", "4", " ", "2", "/", "3", " ", "3", "/", "2", " ", "4", "/", "1">>
L_qvn ==
    <<"f", " ", "1", "/", "/", "2", " ", "2", "/", "/", "3", " ", "3", "/", "/", "4", " ",
      "4", "/", "/", "1">>
L_qvtvn ==
    <<"f", " ", "1", "/", "2", "/", "3", " ", "2", "/", "3", "/", "4", " ",
      "3", "/", "4", "/", "1", " ", "4", "/", "1", "/", "2">>
L_ga == <<"g", " ", "a">>
L_gb == <<"g", " ", "b">>
L_oa == <<"o", " ", "a">>
L_ggroup0 == <<"g", " ", "g", "r", "o", "u", "p", "0">>
L_s1 == <<"s", " ", "1">>
L_s0 == <<"s", " ", "0">>
L_son == <<"s", " ", "o", "n">>
L_soff == <<"s", " ", "o", "f", "f">>
L_sword == <<"s", " ", "x">>
L_mtllib == <<"m", "t", "l", "l", "i", "b", " ", "m", ".", "m", "t", "l">>
L_mtllibtxt == <<"m", "t", "l", "l", "i", "b", " ", "m", ".", "t", "x", "t">>
L_usemtl1 == <<"u", "s", "e", "m", "t", "l", " ", "m", "1">>
L_usemtl2 == <<"u", "s", "e", "m", "t", "l", " ", "m", "2">>
L_comment == <<"#", " ", "c">>
L_blank == <<>>
L_unknown == <<"v">>
L_v4 == <<"v", " ", "1", " ", "2", " ", "3", " ", "4">>
L_vshort == <<"v", " ", "1", " ", "2">>
L_vbad == <<"v", " ", "1", " ", "x", " ", "3">>
L_vnshort == <<"v", "n", " ", "0", " ", "1">>
L_vt3 == <<"v", "t", " ", "0", " ", "1", " ", "2">>
L_vtbad == <<"v", "t", " ", "x", " ", "1">>
L_hash == <<"#", "c">>
L_hashbare == <<"#">>
L_word == <<"x", "y", "z">>

PositionLines == {L_v}
FaceLines ==
    {L_f123, L_f213, L_fneg, L_fzero, L_f1234, L_f12345, L_fvt, L_fvn, L_fvtvn,
     L_qvt, L_qvn, L_qvtvn}
GroupLines == {L_ga, L_gb, L_oa, L_ggroup0}
SmoothLines == {L_s1, L_s0, L_son, L_soff, L_sword}
MaterialLines == {L_mtllib, L_mtllibtxt, L_usemtl1, L_usemtl2}
OtherLines == {L_vn, L_vt, L_comment, L_blank, L_unknown}
Lines ==
    PositionLines \cup FaceLines \cup GroupLines \cup SmoothLines
        \cup MaterialLines \cup OtherLines

P_obj == <<"a", ".", "o", "b", "j">>
P_txt == <<"a", ".", "t", "x", "t">>
Paths == {P_obj, P_txt}

\* ------------------------------------------------------------- data classes
NoName == <<>>
nullptr == <<>>
EmptyMap == <<>>

Face(p, n, uv, c) ==
    [positionIndices |-> p, normalIndices |-> n, uvIndices |-> uv, colorIndices |-> c]

numVertices(face) == Len(face.positionIndices)

\* Mesh{}: the value operator[] inserts for a missing key
DefaultMesh == [name |-> NoName, faces |-> <<>>, material |-> nullptr]

contains(map, key) == key \in DOMAIN map

\* map[key] = value
Put(map, key, value) ==
    [k \in DOMAIN map \cup {key} |-> IF k = key THEN value ELSE map[k]]

\* map[key], which inserts a default value for a missing key
Subscript(map, key, default) ==
    IF contains(map, key) THEN map ELSE Put(map, key, default)

\* --------------------------------------------------------------- variables
VARIABLES
    ndebug,                  \* whether the build defines NDEBUG (assert is a no-op)
    m_config,                \* OBJLoader::m_config
    pc,                      \* "idle", inside load ("obj", "mtl"), or the process's end
    result,                  \* what the last call of load gave its caller
    loads,                   \* calls of load so far
    m_line,
    m_currentMeshName,
    m_smoothShadingEnabled,
    m_positions,
    m_normals,
    m_textureUVs,
    m_colors,
    m_meshes,
    m_materials,
    m_filePath,
    m_errors,
    m_warnings,
    m_infos,
    mtl,                     \* OBJLoader::m_mtlLoader, the MTLLoader's fields
    mtlFile,                 \* the lines loadMaterialFile has taken in its last call
    faceLines,               \* face lines processed in this load
    file,                    \* the lines load has taken from the file so far
    last,                    \* the line processed last and what it parsed to
    snapshot,                \* the OBJData steal() or share() returned last
    earlier,                 \* the file and the outcome of the load before this one
    iteration,               \* the order m_meshes was last traversed in, while it stands
    limit                    \* the sizes this specification explores

build == <<ndebug, limit>>
geometry == <<m_positions, m_normals, m_textureUVs, m_colors>>
assembler == <<m_currentMeshName, m_smoothShadingEnabled, m_meshes>>
logger == <<m_errors, m_warnings, m_infos>>
vars ==
    <<ndebug, m_config, pc, result, loads, m_line, m_currentMeshName,
      m_smoothShadingEnabled, m_positions, m_normals, m_textureUVs, m_colors,
      m_meshes, m_materials, m_filePath, m_errors, m_warnings, m_infos, mtl,
      mtlFile, faceLines, file, last, snapshot, earlier, iteration,
      limit>>

NoLine == [kind |-> "none", line |-> <<>>, face |-> Face(<<>>, <<>>, <<>>, <<>>)]
Last(kind, l) == [kind |-> kind, line |-> l, face |-> Face(<<>>, <<>>, <<>>, <<>>)]

NoSnapshot ==
    [positions |-> <<>>, normals |-> <<>>, textureUVs |-> <<>>, colors |-> <<>>,
     meshes |-> <<>>, name |-> <<>>, taken |-> FALSE]

NotTraversed == [seen |-> FALSE, order |-> <<>>]

NoOutcome ==
    [file |-> <<>>, returned |-> FALSE, result |-> "none", positions |-> <<>>,
     normals |-> <<>>, textureUVs |-> <<>>, meshes |-> <<>>, errors |-> <<>>,
     warnings |-> <<>>]

MTLLoaderInit ==
    [m_materials |-> EmptyMap, m_currentMaterial |-> NoName, m_filePath |-> <<>>,
     m_line |-> 0, lines |-> 0]

InitWith(lim) ==
    /\ limit = lim
    /\ ndebug \in BOOLEAN
    /\ m_config = [triangulate |-> TRUE]
    /\ pc = "idle"
    /\ result = "none"
    /\ loads = 0
    /\ m_line = 0
    /\ m_currentMeshName = NoName
    /\ m_smoothShadingEnabled = FALSE
    /\ m_positions = <<>>
    /\ m_normals = <<>>
    /\ m_textureUVs = <<>>
    /\ m_colors = <<>>
    /\ m_meshes = EmptyMap
    /\ m_materials = EmptyMap
    /\ m_filePath = <<>>
    /\ m_errors = <<>>
    /\ m_warnings = <<>>
    /\ m_infos = <<>>
    /\ mtl = MTLLoaderInit
    /\ mtlFile = <<>>
    /\ faceLines = 0
    /\ file = <<>>
    /\ last = NoLine
    /\ snapshot = NoSnapshot
    /\ earlier = NoOutcome
    /\ iteration = NotTraversed

\* ------------------------------------------------------------- sobjLogger
Msg(what, line) == [msg |-> what, line |-> line]

existsError == m_errors # <<>>
existsWarning == m_warnings # <<>>

\* ------------------------------------------------------------- identifier
identifier(str) ==
    IF starts_with(str, <<"v", " ">>) THEN "POSITION"
    ELSE IF starts_with(str, <<"v", "n", " ">>) THEN "NORMAL"
    ELSE IF starts_with(str, <<"v", "t", " ">>) THEN "UV"
    ELSE IF starts_with(str, <<"f", " ">>) THEN "FACE"
    ELSE IF starts_with(str, <<"g", " ">>) THEN "GROUP"
    ELSE IF starts_with(str, <<"o", " ">>) THEN "NAMED_OBJECT"
    ELSE IF starts_with(str, <<"s", " ">>) THEN "SMOOTH_SHADING"
    ELSE IF starts_with(str, <<"m", "t", "l", "l", "i", "b", " ">>) THEN "MATERIAL_LIB"
    ELSE IF starts_with(str, <<"u", "s", "e", "m", "t", "l", " ">>) THEN "USE_MATERIAL"
    ELSE IF starts_with(str, <<"#", " ">>) THEN "COMMENT"
    ELSE IF str = <<>> THEN "BLANK"
    ELSE "UNKNOWN"

\* ------------------------------------------------------------- MathParser
\* std::nullopt is <<>>, a value is <<v>>
parseVec3(str) ==
    LET r0 == ReadWord(Stream(str))
        rx == ReadNumber(r0.st)
        ry == ReadNumber(rx.st)
        rz == ReadNumber(ry.st)
    IN IF rz.st.fail THEN <<>> ELSE << <<rx.val, ry.val, rz.val>> >>

parseVec2(str) ==
    LET r0 == ReadWord(Stream(str))
        rx == ReadNumber(r0.st)
        ry == ReadNumber(rx.st)
    IN IF ry.st.fail THEN <<>> ELSE << <<rx.val, ry.val>> >>

parseFloat(str) ==
    LET r0 == ReadWord(Stream(str))
        rx == ReadNumber(r0.st)
    IN IF rx.st.fail THEN <<>> ELSE <<rx.val>>

\* ---------------------------------------------------------- Index Resolver
Ret(v) == [tag |-> "ret", val |-> v]
Aborted == [tag |-> "abort", val |-> 0]
Crashed == [tag |-> "crash", val |-> 0]

\* The outcomes of calculateIndex(index, type).  For index <= 0 the switch
\* computes size - abs(index) and discards it, then reaches assert(false):
\* the process aborts, or with NDEBUG control flows off the end of a function
\* returning size_t, which is undefined (a crash or an indeterminate value).
calculateIndex(index, type) ==
    IF index > 0 THEN {Ret(index - 1)}
    ELSE IF ndebug THEN {Crashed} \cup {Ret(v) : v \in 0..MaxUB}
    ELSE {Aborted}

\* --------------------------------------------------------------- parseFace
Vertex(v, vt, vn, bad) == [v |-> v, vt |-> vt, vn |-> vn, bad |-> bad]

\* while (stream >> v >> slash1 >> slash2 >> vn)
RECURSIVE LoopVN(_)
LoopVN(st) ==
    LET rv == ReadNumber(st)
        r1 == ReadChar(rv.st)
        r2 == ReadChar(r1.st)
        rn == ReadNumber(r2.st)
    IN IF rn.st.fail THEN <<>>
       ELSE <<Vertex(rv.val, 0, rn.val, r1.val # DELIMITER \/ r2.val # DELIMITER)>>
                \o LoopVN(rn.st)

\* while (stream >> v >> slash1 >> vt >> slash2 >> vn)
RECURSIVE LoopVTVN(_)
LoopVTVN(st) ==
    LET rv == ReadNumber(st)
        r1 == ReadChar(rv.st)
        rt == ReadNumber(r1.st)
        r2 == ReadChar(rt.st)
        rn == ReadNumber(r2.st)
    IN IF rn.st.fail THEN <<>>
       ELSE <<Vertex(rv.val, rt.val, rn.val, r1.val # DELIMITER \/ r2.val # DELIMITER)>>
                \o LoopVTVN(rn.st)

\* while (stream >> v >> slash1 >> vt)
RECURSIVE LoopVT(_)
LoopVT(st) ==
    LET rv == ReadNumber(st)
        r1 == ReadChar(rv.st)
        rt == ReadNumber(r1.st)
    IN IF rt.st.fail THEN <<>>
       ELSE <<Vertex(rv.val, rt.val, 0, r1.val # DELIMITER)>> \o LoopVT(rt.st)

\* while (stream >> v)
RECURSIVE LoopV(_)
LoopV(st) ==
    LET rv == ReadNumber(st)
    IN IF rv.st.fail THEN <<>> ELSE <<Vertex(rv.val, 0, 0, FALSE)>> \o LoopV(rv.st)

\* The grammar of parseFace: the syntax it picks and the vertex tokens it
\* reads, before any index is resolved.
FaceTokens(str) ==
    LET st == ReadWord(Stream(str)).st
    IN IF Contains(str, <<DELIMITER, DELIMITER>>)
       THEN [syntax |-> "v//vn", verts |-> LoopVN(st)]
       ELSE IF Contains(str, <<DELIMITER>>)
       THEN LET rv == ReadNumber(st)
                r1 == ReadChar(rv.st)
                rt == ReadNumber(r1.st)
            IN IF Peek(rt.st) = DELIMITER
               THEN LET r2 == ReadChar(rt.st)
                        rn == ReadNumber(r2.st)
                    IN [syntax |-> "v/vt/vn",
                        verts |->
                            <<Vertex(rv.val, rt.val, rn.val,
                                     r1.val # DELIMITER \/ r2.val # DELIMITER)>>
                                \o LoopVTVN(rn.st)]
               ELSE [syntax |-> "v/vt",
                     verts |->
                         <<Vertex(rv.val, rt.val, 0, r1.val # DELIMITER)>>
                             \o LoopVT(rt.st)]
       ELSE [syntax |-> "v", verts |-> LoopV(st)]

\* the sequences of values a run of calculateIndex calls can return
RECURSIVE Resolved(_, _)
Resolved(tokens, type) ==
    IF tokens = <<>> THEN {<<>>}
    ELSE {<<o.val>> \o rest :
            o \in {x \in calculateIndex(Head(tokens), type) : x.tag = "ret"},
            rest \in Resolved(Tail(tokens), type)}

\* the ways a run of calculateIndex calls can end the process
Unresolved(tokens, type) ==
    {o.tag : o \in {x \in UNION {calculateIndex(tokens[i], type) : i \in 1..Len(tokens)} :
                        x.tag # "ret"}}

EmptyFace == Face(<<>>, <<>>, <<>>, <<>>)

\* The outcomes of parseFace(str): a face (always a value, never nullopt)
\* with the number of delimiter errors logged, or the end of the process.
parseFace(str) ==
    LET t == FaceTokens(str)
        n == Len(t.verts)
        vs == [i \in 1..n |-> t.verts[i].v]
        vts == IF t.syntax \in {"v/vt", "v/vt/vn"} THEN [i \in 1..n |-> t.verts[i].vt] ELSE <<>>
        vns == IF t.syntax \in {"v//vn", "v/vt/vn"} THEN [i \in 1..n |-> t.verts[i].vn] ELSE <<>>
        bad == Cardinality({i \in 1..n : t.verts[i].bad})
    IN {[tag |-> "ret", face |-> Face(p, nn, uv, <<>>), bad |-> bad] :
            p \in Resolved(vs, "POSITION"), nn \in Resolved(vns, "NORMAL"),
            uv \in Resolved(vts, "UV")}
       \cup {[tag |-> x, face |-> EmptyFace, bad |-> bad] :
                x \in Unresolved(vs, "POSITION") \cup Unresolved(vns, "NORMAL")
                        \cup Unresolved(vts, "UV")}

\* -------------------------------------------------------------- triangulate
Pick(s, idx) == IF s = <<>> THEN <<>> ELSE [i \in 1..Len(idx) |-> s[idx[i] + 1]]

SubFace(face, idx) ==
    Face(Pick(face.positionIndices, idx), Pick(face.normalIndices, idx),
         Pick(face.uvIndices, idx), Pick(face.colorIndices, idx))

\* a triangulation that cuts the quad along its other diagonal
triangulateOtherDiagonal(face) ==
    IF numVertices(face) = 3 THEN [tag |-> "ret", faces |-> <<face>>]
    ELSE IF numVertices(face) # 4 THEN [tag |-> "throw", faces |-> <<>>]
    ELSE [tag |-> "ret",
          faces |-> <<SubFace(face, <<0, 1, 3>>), SubFace(face, <<1, 2, 3>>)>>]

\* std::vector<Face> triangulate(face), or the runtime_error it throws
triangulate(face) ==
    IF numVertices(face) = 3 THEN [tag |-> "ret", faces |-> <<face>>]
    ELSE IF numVertices(face) # 4 THEN [tag |-> "throw", faces |-> <<>>]
    ELSE [tag |-> "ret",
          faces |-> <<SubFace(face, <<0, 1, 2>>), SubFace(face, <<0, 2, 3>>)>>]

\* ------------------------------------------------------- pushFace, pushFaces
\* m_meshes[m_currentMeshName].faces.push_back(face) for each face; the
\* subscript inserts a default mesh when the key is missing
Pushed(meshes, cur, faces) ==
    IF faces = <<>> THEN meshes
    ELSE LET m == Subscript(meshes, cur, DefaultMesh)
         IN [m EXCEPT ![cur].faces = @ \o faces]

\* assert(m_meshes.contains(m_currentMeshName)) then the push
pushFaces(meshes, cur, faces) ==
    IF ~ndebug /\ ~contains(meshes, cur)
    THEN [tag |-> "abort", meshes |-> meshes]
    ELSE [tag |-> "ret", meshes |-> Pushed(meshes, cur, faces)]

pushFace(meshes, cur, face) ==
    IF ~ndebug /\ ~contains(meshes, cur)
    THEN [tag |-> "abort", meshes |-> meshes]
    ELSE [tag |-> "ret", meshes |-> Pushed(meshes, cur, <<face>>)]

\* ------------------------------------------------- makeGroup, makeGroupAnonym
\* makeGroup(name): the table is asked for the name as given, the mesh is
\* stored under the trimmed name
makeGroup(meshes, name) ==
    LET name_ == trim(name)
    IN [cur |-> name_,
        meshes |-> IF contains(meshes, name) THEN meshes
                   ELSE Put(meshes, name_, [DefaultMesh EXCEPT !.name = name_])]

\* makeGroupAnonym(): groupID is never advanced, so the do-while does not end
\* once a mesh of that name exists
makeGroupAnonym(meshes, cur) ==
    IF ~ndebug /\ ~contains(meshes, cur)
    THEN [tag |-> "abort", meshes |-> meshes, cur |-> cur]
    ELSE LET m == Subscript(meshes, cur, DefaultMesh)
             name == GROUP_NAME_PREFIX \o to_string(groupID)
         IN IF m[cur].faces = <<>> THEN [tag |-> "ret", meshes |-> m, cur |-> cur]
            ELSE IF contains(m, name) THEN [tag |-> "hang", meshes |-> m, cur |-> cur]
            ELSE [tag |-> "ret",
                  meshes |-> Put(m, name, [DefaultMesh EXCEPT !.name = name]),
                  cur |-> name]

\* ------------------------------------------------------ parseSmoothShading
SmoothState(meshes, cur, enabled) ==
    [tag |-> "ret", meshes |-> meshes, cur |-> cur, enabled |-> enabled,
     warned |-> FALSE, returned |-> FALSE]

\* if (enabled == on) return; makeGroupAnonym(); m_smoothShadingEnabled = on;
SetSmooth(S, on) ==
    IF S.enabled = on THEN [S EXCEPT !.returned = TRUE]
    ELSE LET g == makeGroupAnonym(S.meshes, S.cur)
         IN [S EXCEPT !.tag = g.tag, !.meshes = g.meshes, !.cur = g.cur,
                      !.enabled = IF g.tag = "ret" THEN on ELSE @]

\* The outcomes of parseSmoothShading(str).  After the keyword the stream
\* stands at the separator, so peek() gives ' '; the word branch does not
\* return, and the number branch reads an int that a failed parse sets to 0
\* and a failed sentry leaves indeterminate.
parseSmoothShading(str, meshes, cur, enabled) ==
    LET st == ReadWord(Stream(str)).st
        S0 == SmoothState(meshes, cur, enabled)
        word == Peek(st) = "o"
        rw == ReadWord(st)
        S1 == IF ~word THEN S0
              ELSE IF rw.val = ON THEN SetSmooth(S0, TRUE)
              ELSE IF rw.val = OFF THEN SetSmooth(S0, FALSE)
              ELSE [S0 EXCEPT !.warned = TRUE]
        st1 == IF word THEN rw.st ELSE st
        toggles == IF SentryFails(st1) THEN {0, 1} ELSE {ReadNumber(st1).val}
    IN IF S1.returned \/ S1.tag # "ret" THEN {S1}
       ELSE {SetSmooth(S1, t # 0) : t \in toggles}

\* ---------------------------------------------------------------- materials
Vec3(x) == <<x, 0, 0>>

\* std::make_shared<Material>(name)
NewMaterial(name) ==
    [name |-> name, ambientMap |-> nullptr, diffuseMap |-> nullptr,
     specularMap |-> nullptr, roughnessMap |-> nullptr, alphaMap |-> nullptr,
     ambient |-> Vec3(-1), diffuse |-> Vec3(-1), specular |-> Vec3(-1),
     roughness |-> -1, alpha |-> -1]

parseMaterialFilePath(str) ==
    LET st == ReadWord(Stream(str)).st
    IN <<trim(GetLine(st).val)>>

\* a usemtl that binds the material to every mesh of the table
parseUseMaterialAllMeshes(str, meshes, cur, materials) ==
    LET name == trim(GetLine(ReadWord(Stream(str)).st).val)
    IN IF meshes = EmptyMap \/ ~contains(materials, name)
       THEN [tag |-> "ret", ok |-> FALSE, meshes |-> meshes]
       ELSE [tag |-> "ret", ok |-> TRUE,
             meshes |-> [k \in DOMAIN meshes |->
                            [meshes[k] EXCEPT !.material = materials[name]]]]

\* The outcome of parseUseMaterial(str): its return value and the mesh table.
parseUseMaterial(str, meshes, cur, materials) ==
    LET st == ReadWord(Stream(str)).st
        g == GetLine(st)
        name == trim(g.val)
    IN IF meshes = EmptyMap THEN [tag |-> "ret", ok |-> FALSE, meshes |-> meshes]
       ELSE IF g.st.fail THEN [tag |-> "ret", ok |-> FALSE, meshes |-> meshes]
       ELSE IF ~ndebug /\ ~contains(meshes, cur)
       THEN [tag |-> "abort", ok |-> FALSE, meshes |-> meshes]
       ELSE IF ~contains(materials, name)
       THEN [tag |-> "ret", ok |-> FALSE, meshes |-> meshes]
       ELSE [tag |-> "ret", ok |-> TRUE,
             meshes |-> [Subscript(meshes, cur, DefaultMesh)
                            EXCEPT ![cur].material = materials[name]]]

\* -------------------------------------------------------- OBJLoader::load
\* what the end of the process or of the call leaves in pc and result
Ended(tag) ==
    /\ pc' = (IF tag = "throw" THEN "idle" ELSE tag)
    /\ result' = (IF tag = "throw" THEN "throw" ELSE result)

\* what the call of load before this one read and left behind
Outcome ==
    [file |-> file, returned |-> loads > 0 /\ pc = "idle" /\ last.kind = "EOF",
     result |-> result, positions |-> m_positions, normals |-> m_normals,
     textureUVs |-> m_textureUVs, meshes |-> m_meshes, errors |-> m_errors,
     warnings |-> m_warnings]

\* load(filePath): reset(), the extension check and the opening of the file.
\* reset() leaves m_smoothShadingEnabled, m_materials and the MTLLoader alone.
Load(path, opens) ==
    /\ pc = "idle"
    /\ loads < limit.loads
    /\ loads' = loads + 1
    /\ m_line' = 0
    /\ m_currentMeshName' = NoName
    /\ m_positions' = <<>>
    /\ m_normals' = <<>>
    /\ m_textureUVs' = <<>>
    /\ m_colors' = <<>>
    /\ m_meshes' = EmptyMap
    /\ m_warnings' = <<>>
    /\ m_infos' = <<>>
    /\ m_filePath' = path
    /\ faceLines' = 0
    /\ file' = <<>>
    /\ last' = NoLine
    /\ earlier' = Outcome
    /\ iteration' = NotTraversed
    /\ IF ~ends_with(path, <<".", "o", "b", "j">>)
       THEN /\ m_errors' = <<Msg("extension", 0)>>
            /\ pc' = "idle"
            /\ result' = "fail"
       ELSE /\ m_errors' = <<>>
            /\ IF opens THEN pc' = "obj" /\ result' = "none"
               ELSE pc' = "idle" /\ result' = "fail"
    /\ UNCHANGED <<build, m_config, m_smoothShadingEnabled, m_materials, mtl, mtlFile,
                   snapshot>>

\* the loop of load takes a line
TakesOneOf(l, kinds) ==
    /\ pc = "obj"
    /\ m_line < limit.lines
    /\ identifier(l) \in kinds
    /\ file' = Append(file, l)

Takes(l, kind) == TakesOneOf(l, {kind})

\* case Identifier::POSITION
PositionLine(l) ==
    /\ Takes(l, "POSITION")
    /\ Len(m_positions) < limit.positions
    /\ last' = Last("POSITION", l)
    /\ IF parseVec3(l) = <<>>
       THEN /\ m_errors' = Append(m_errors, Msg("parse", m_line))
            /\ pc' = "idle"
            /\ result' = "fail"
            /\ UNCHANGED <<m_positions, m_line>>
       ELSE /\ m_positions' = Append(m_positions, parseVec3(l)[1])
            /\ m_line' = m_line + 1
            /\ UNCHANGED <<m_errors, pc, result>>
    /\ UNCHANGED <<build, m_config, loads, assembler, m_normals, m_textureUVs, m_colors,
                   m_materials, m_filePath, m_warnings, m_infos, mtl, mtlFile,
                   faceLines, snapshot, earlier, iteration>>

\* case Identifier::NORMAL
NormalLine(l) ==
    /\ Takes(l, "NORMAL")
    /\ last' = Last("NORMAL", l)
    /\ IF parseVec3(l) = <<>>
       THEN /\ m_errors' = Append(m_errors, Msg("parse", m_line))
            /\ pc' = "idle"
            /\ result' = "fail"
            /\ UNCHANGED <<m_normals, m_line>>
       ELSE /\ m_normals' = Append(m_normals, parseVec3(l)[1])
            /\ m_line' = m_line + 1
            /\ UNCHANGED <<m_errors, pc, result>>
    /\ UNCHANGED <<build, m_config, loads, assembler, m_positions, m_textureUVs,
                   m_colors, m_materials, m_filePath, m_warnings, m_infos, mtl, mtlFile,
                   faceLines, snapshot, earlier, iteration>>

\* case Identifier::UV
UVLine(l) ==
    /\ Takes(l, "UV")
    /\ last' = Last("UV", l)
    /\ IF parseVec2(l) = <<>>
       THEN /\ m_errors' = Append(m_errors, Msg("parse", m_line))
            /\ pc' = "idle"
            /\ result' = "fail"
            /\ UNCHANGED <<m_textureUVs, m_line>>
       ELSE /\ m_textureUVs' = Append(m_textureUVs, parseVec2(l)[1])
            /\ m_line' = m_line + 1
            /\ UNCHANGED <<m_errors, pc, result>>
    /\ UNCHANGED <<build, m_config, loads, assembler, m_positions, m_normals, m_colors,
                   m_materials, m_filePath, m_warnings, m_infos, mtl, mtlFile,
                   faceLines, snapshot, earlier, iteration>>

\* a FACE case that triangulates whatever the option says
StoreFaceTriangulated(meshes, cur, face) ==
    LET t == triangulate(face)
    IN IF t.tag # "ret" THEN [tag |-> t.tag, meshes |-> meshes]
       ELSE pushFaces(meshes, cur, t.faces)

\* what case Identifier::FACE does with the face parseFace returned
StoreFace(meshes, cur, face) ==
    IF m_config.triangulate
    THEN LET t == triangulate(face)
         IN IF t.tag # "ret" THEN [tag |-> t.tag, meshes |-> meshes]
            ELSE pushFaces(meshes, cur, t.faces)
    ELSE pushFace(meshes, cur, face)

\* case Identifier::FACE
FaceLine(l) ==
    /\ Takes(l, "FACE")
    /\ faceLines < limit.faces
    /\ faceLines' = faceLines + 1
    /\ \E r \in parseFace(l) :
        /\ last' = [kind |-> "FACE", line |-> l, face |-> r.face]
        /\ m_errors' = m_errors \o [i \in 1..r.bad |-> Msg("syntax", m_line)]
        /\ IF r.tag # "ret"
           THEN Ended(r.tag) /\ UNCHANGED <<m_meshes, m_line>>
           ELSE LET p == StoreFace(m_meshes, m_currentMeshName, r.face)
                IN /\ m_meshes' = p.meshes
                   /\ IF p.tag # "ret" THEN Ended(p.tag) /\ UNCHANGED m_line
                      ELSE m_line' = m_line + 1 /\ UNCHANGED <<pc, result>>
    /\ UNCHANGED <<build, m_config, loads, m_currentMeshName, m_smoothShadingEnabled,
                   geometry, m_materials, m_filePath, m_warnings, m_infos, mtl, mtlFile,
                   snapshot, earlier, iteration>>

\* case Identifier::SMOOTH_SHADING
SmoothShadingLine(l) ==
    /\ Takes(l, "SMOOTH_SHADING")
    /\ last' = Last("SMOOTH_SHADING", l)
    /\ \E S \in parseSmoothShading(l, m_meshes, m_currentMeshName, m_smoothShadingEnabled) :
        /\ m_meshes' = S.meshes
        /\ m_currentMeshName' = S.cur
        /\ m_smoothShadingEnabled' = S.enabled
        /\ m_warnings' = IF S.warned THEN Append(m_warnings, Msg("toggle", m_line))
                         ELSE m_warnings
        /\ IF S.tag # "ret" THEN Ended(S.tag) /\ UNCHANGED m_line
           ELSE m_line' = m_line + 1 /\ UNCHANGED <<pc, result>>
    /\ UNCHANGED <<build, m_config, loads, geometry, m_materials, m_filePath, m_errors,
                   m_infos, mtl, mtlFile, faceLines, snapshot, earlier, iteration>>

\* parseGroup(str): the name is the rest of the line after the keyword
parseGroup(str, meshes) ==
    makeGroup(meshes, GetLine(ReadWord(Stream(str)).st).val)

\* case Identifier::NAMED_OBJECT, case Identifier::GROUP
GroupLine(l) ==
    /\ TakesOneOf(l, {"GROUP", "NAMED_OBJECT"})
    /\ last' = Last("GROUP", l)
    /\ m_meshes' = parseGroup(l, m_meshes).meshes
    /\ m_currentMeshName' = parseGroup(l, m_meshes).cur
    /\ m_line' = m_line + 1
    /\ UNCHANGED <<build, m_config, pc, result, loads, m_smoothShadingEnabled, geometry,
                   m_materials, m_filePath, logger, mtl, mtlFile, faceLines, snapshot,
                   earlier, iteration>>

\* case Identifier::USE_MATERIAL: the return value is dropped
UseMaterialLine(l) ==
    /\ Takes(l, "USE_MATERIAL")
    /\ last' = Last("USE_MATERIAL", l)
    /\ LET r == parseUseMaterial(l, m_meshes, m_currentMeshName, m_materials)
       IN /\ m_meshes' = r.meshes
          /\ IF r.tag # "ret" THEN Ended(r.tag) /\ UNCHANGED m_line
             ELSE m_line' = m_line + 1 /\ UNCHANGED <<pc, result>>
    /\ UNCHANGED <<build, m_config, loads, m_currentMeshName, m_smoothShadingEnabled,
                   geometry, m_materials, m_filePath, logger, mtl, mtlFile, faceLines,
                   snapshot, earlier, iteration>>

\* case Identifier::BLANK, case Identifier::COMMENT
SkipLine(l) ==
    /\ TakesOneOf(l, {"BLANK", "COMMENT"})
    /\ last' = Last("SKIP", l)
    /\ m_line' = m_line + 1
    /\ UNCHANGED <<build, m_config, pc, result, loads, assembler, geometry, m_materials,
                   m_filePath, logger, mtl, mtlFile, faceLines, snapshot, earlier,
                   iteration>>

\* case Identifier::UNKNOWN
UnknownLine(l) ==
    /\ Takes(l, "UNKNOWN")
    /\ last' = Last("UNKNOWN", l)
    /\ m_warnings' = Append(m_warnings, Msg("unknown", m_line))
    /\ m_line' = m_line + 1
    /\ UNCHANGED <<build, m_config, pc, result, loads, assembler, geometry, m_materials,
                   m_filePath, m_errors, m_infos, mtl, mtlFile, faceLines, snapshot,
                   earlier, iteration>>

\* an end of the file without the position check
EndOfFileUnchecked ==
    /\ pc = "obj"
    /\ pc' = "idle"
    /\ last' = Last("EOF", <<>>)
    /\ m_infos' = Append(m_infos, Msg("loaded", m_line))
    /\ result' = "ok"
    /\ UNCHANGED <<build, m_config, loads, m_line, assembler, geometry, m_materials,
                   m_filePath, m_errors, m_warnings, mtl, mtlFile, faceLines, file,
                   snapshot, earlier, iteration>>

\* the end of the file: the position check, the info message, shrink()
EndOfFile ==
    /\ pc = "obj"
    /\ pc' = "idle"
    /\ last' = Last("EOF", <<>>)
    /\ IF m_positions = <<>>
       THEN /\ m_errors' = Append(m_errors, Msg("no positions", m_line))
            /\ result' = "fail"
            /\ UNCHANGED m_infos
       ELSE /\ m_infos' = Append(m_infos, Msg("loaded", m_line))
            /\ result' = "ok"
            /\ UNCHANGED m_errors
    /\ UNCHANGED <<build, m_config, loads, m_line, assembler, geometry, m_materials,
                   m_filePath, m_warnings, mtl, mtlFile, faceLines, file, snapshot,
                   earlier, iteration>>

\* setShouldTriangulate(b), explored while a call of load is still to come
setShouldTriangulate(b) ==
    /\ pc = "idle"
    /\ loads < limit.loads
    /\ m_config' = [m_config EXCEPT !.triangulate = b]
    /\ UNCHANGED <<build, pc, result, loads, m_line, assembler, geometry, m_materials,
                   m_filePath, logger, mtl, mtlFile, faceLines, file, last, snapshot,
                   earlier, iteration>>

\* --------------------------------------------------------------- MTLLoader
M_newmtl1 == <<"n", "e", "w", "m", "t", "l", " ", "m", "1">>
M_newmtl2 == <<"n", "e", "w", "m", "t", "l", " ", "m", "2">>
M_Ka == <<"K", "a", " ", "1", " ", "2", " ", "3">>
M_Kd == <<"K", "d", " ", "4", " ", "5", " ", "6">>
M_Ks == <<"K", "s", " ", "7", " ", "8", " ", "9">>
M_KaBad == <<"K", "a", " ", "1", " ", "x">>
M_Ns == <<"N", "s", " ", "5">>
M_d == <<"d", " ", "1">>
M_mapKa == <<"m", "a", "p", "_", "K", "a", " ", "a">>
M_mapKd == <<"m", "a", "p", "_", "K", "d", " ", "b">>
M_mapKs == <<"m", "a", "p", "_", "K", "s", " ", "c">>
M_mapNs == <<"m", "a", "p", "_", "N", "s", " ", "d">>
M_mapd == <<"m", "a", "p", "_", "d", " ", "e">>
M_comment == <<"#", " ", "c">>
M_blank == <<>>
M_unknown == <<"i", "l", "l", "u", "m", " ", "2">>
M_hash == <<"#", "c">>

MtlLines ==
    {M_newmtl1, M_newmtl2, M_Ka, M_Kd, M_Ks, M_KaBad, M_Ns, M_d, M_mapKa, M_mapKd,
     M_mapKs, M_mapNs, M_mapd, M_comment, M_blank, M_unknown}

mtlIdentifier(str) ==
    IF starts_with(str, <<"n", "e", "w", "m", "t", "l", " ">>) THEN "NEW_MATERIAL"
    ELSE IF starts_with(str, <<"m", "a", "p", "_", "K", "a", " ">>) THEN "AMBIENT_MAP"
    ELSE IF starts_with(str, <<"m", "a", "p", "_", "K", "d", " ">>) THEN "DIFFUSE_MAP"
    ELSE IF starts_with(str, <<"m", "a", "p", "_", "K", "s", " ">>) THEN "SPECULAR_MAP"
    ELSE IF starts_with(str, <<"m", "a", "p", "_", "N", "s", " ">>) THEN "ROUGHNESS_MAP"
    ELSE IF starts_with(str, <<"m", "a", "p", "_", "d", " ">>) THEN "ALPHA_MAP"
    ELSE IF starts_with(str, <<"K", "a", " ">>) THEN "AMBIENT"
    ELSE IF starts_with(str, <<"K", "d", " ">>) THEN "DIFFUSE"
    ELSE IF starts_with(str, <<"K", "s", " ">>) THEN "SPECULAR"
    ELSE IF starts_with(str, <<"N", "s", " ">>) THEN "ROUGHNESS"
    ELSE IF starts_with(str, <<"d", " ">>) THEN "ALPHA"
    ELSE IF starts_with(str, <<"#", " ">>) THEN "COMMENT"
    ELSE IF str = <<>> THEN "BLANK"
    ELSE "UNKNOWN"

\* the member of Material each case of loadMaterialFile hands to setImageMap
\* or assigns
MapSlot(id) ==
    CASE id = "AMBIENT_MAP" -> "ambientMap"
      [] id = "DIFFUSE_MAP" -> "diffuseMap"
      [] id = "SPECULAR_MAP" -> "specularMap"
      [] id = "ROUGHNESS_MAP" -> "roughnessMap"
      [] id = "ALPHA_MAP" -> "ambientMap"

ValueSlot(id) ==
    CASE id = "AMBIENT" -> "ambient"
      [] id = "DIFFUSE" -> "diffuse"
      [] id = "SPECULAR" -> "specular"
      [] id = "ROUGHNESS" -> "roughness"
      [] id = "ALPHA" -> "alpha"

\* a return that merges the loader's table into the OBJ loader's table
MtlReturnsMerging(m) ==
    /\ m_materials' = [k \in DOMAIN m_materials \cup DOMAIN m.m_materials |->
                            IF k \in DOMAIN m.m_materials THEN m.m_materials[k]
                            ELSE m_materials[k]]
    /\ mtl' = [m EXCEPT !.m_materials = EmptyMap, !.lines = 0]
    /\ pc' = "obj"
    /\ m_line' = m_line + 1

\* loadMaterialFile returns to case Identifier::MATERIAL_LIB, which drops the
\* return value, takes the loader's table (stealMaterials) and goes on
MtlReturns(m) ==
    /\ m_materials' = m.m_materials
    /\ mtl' = [m EXCEPT !.m_materials = EmptyMap, !.lines = 0]
    /\ pc' = "obj"
    /\ m_line' = m_line + 1

MtlFrame ==
    UNCHANGED <<build, m_config, result, loads, assembler, geometry, m_filePath,
                m_infos, faceLines, file, last, snapshot, earlier, iteration>>

\* case Identifier::MATERIAL_LIB, up to the loop of loadMaterialFile
MaterialLibLine(l, opens) ==
    /\ Takes(l, "MATERIAL_LIB")
    /\ LET path == parseMaterialFilePath(l)[1]
           m == [mtl EXCEPT !.m_filePath = path]
       IN IF ~ends_with(path, <<".", "m", "t", "l">>) \/ ~opens
          THEN MtlReturns(m)
          ELSE /\ mtl' = m
               /\ pc' = "mtl"
               /\ UNCHANGED <<m_materials, m_line>>
    /\ last' = Last("MATERIAL_LIB", l)
    /\ mtlFile' = <<>>
    /\ UNCHANGED <<build, m_config, result, loads, assembler, geometry, m_filePath,
                   logger, faceLines, snapshot, earlier, iteration>>

MtlTakes(l, kinds) ==
    /\ pc = "mtl"
    /\ mtl.lines < limit.mtlLines
    /\ mtlIdentifier(l) \in kinds
    /\ mtlFile' = Append(mtlFile, l)

\* break; m_line++
MtlNext(m) ==
    /\ mtl' = [m EXCEPT !.m_line = @ + 1, !.lines = @ + 1]
    /\ UNCHANGED <<m_materials, pc, m_line>>

\* case Identifier::NEW_MATERIAL, parseNewMaterial
MtlNewMaterial(l) ==
    /\ MtlTakes(l, {"NEW_MATERIAL"})
    /\ LET r0 == ReadWord(Stream(l))
           rn == ReadWord(r0.st)
           name == rn.val
       IN IF rn.st.fail THEN MtlReturns(mtl)
          ELSE IF ~ndebug /\ contains(mtl.m_materials, name)
          THEN pc' = "abort" /\ UNCHANGED <<m_materials, m_line, mtl>>
          ELSE MtlNext([mtl EXCEPT !.m_materials = Put(@, name, <<NewMaterial(name)>>),
                                   !.m_currentMaterial = name])
    /\ UNCHANGED <<m_errors, m_warnings>>
    /\ MtlFrame

\* m_materials[m_currentMaterial]->, which inserts a null pointer for a
\* missing key and then goes through it
Deref(m) == Subscript(m.m_materials, m.m_currentMaterial, nullptr)

\* case Identifier::AMBIENT_MAP .. ALPHA_MAP, setImageMap and parseImage;
\* the image decoder is outside the program, its result is the image's name
MtlImageMap(l) ==
    /\ MtlTakes(l, {"AMBIENT_MAP", "DIFFUSE_MAP", "SPECULAR_MAP", "ROUGHNESS_MAP",
                    "ALPHA_MAP"})
    /\ LET r0 == ReadWord(Stream(l))
           rp == ReadWord(r0.st)
           image == [name |-> trim(rp.val)]
           table == Deref(mtl)
           slot == MapSlot(mtlIdentifier(l))
           m == [mtl EXCEPT !.m_materials = table]
       IN IF table[mtl.m_currentMaterial] = nullptr
          THEN \* a reference through a null pointer, read by if (imageMap)
               /\ pc' = "crash"
               /\ mtl' = m
               /\ UNCHANGED <<m_materials, m_line, m_warnings>>
          ELSE IF rp.st.fail
          THEN MtlReturns(m) /\ UNCHANGED m_warnings
          ELSE LET mat == table[mtl.m_currentMaterial][1]
               IN /\ m_warnings' =
                        IF mat[slot] # nullptr
                        THEN Append(m_warnings, Msg("two image maps", mtl.m_line))
                        ELSE m_warnings
                  /\ MtlNext([m EXCEPT
                        !.m_materials[mtl.m_currentMaterial] =
                            <<[mat EXCEPT ![slot] = <<image>>]>>])
    /\ UNCHANGED m_errors
    /\ MtlFrame

\* case Identifier::AMBIENT .. ALPHA: parseVec3 or parseFloat, then the store
MtlValue(l) ==
    /\ MtlTakes(l, {"AMBIENT", "DIFFUSE", "SPECULAR", "ROUGHNESS", "ALPHA"})
    /\ LET id == mtlIdentifier(l)
           parsed == IF id \in {"ROUGHNESS", "ALPHA"} THEN parseFloat(l) ELSE parseVec3(l)
           table == Deref(mtl)
           m == [mtl EXCEPT !.m_materials = table]
       IN IF parsed = <<>>
          THEN /\ m_errors' = Append(m_errors, Msg("parse", mtl.m_line))
               /\ MtlReturns(mtl)
          ELSE IF table[mtl.m_currentMaterial] = nullptr
          THEN \* a store through a null pointer
               /\ pc' = "crash"
               /\ mtl' = m
               /\ UNCHANGED <<m_materials, m_line, m_errors>>
          ELSE /\ MtlNext([m EXCEPT
                        !.m_materials[mtl.m_currentMaterial] =
                            <<[table[mtl.m_currentMaterial][1] EXCEPT
                                    ![ValueSlot(id)] = parsed[1]]>>])
               /\ UNCHANGED m_errors
    /\ UNCHANGED m_warnings
    /\ MtlFrame

\* case Identifier::COMMENT, case Identifier::BLANK
MtlSkip(l) ==
    /\ MtlTakes(l, {"COMMENT", "BLANK"})
    /\ MtlNext(mtl)
    /\ UNCHANGED <<m_errors, m_warnings>>
    /\ MtlFrame

\* case Identifier::UNKNOWN
MtlUnknown(l) ==
    /\ MtlTakes(l, {"UNKNOWN"})
    /\ m_warnings' = Append(m_warnings, Msg("unknown", mtl.m_line))
    /\ MtlNext(mtl)
    /\ UNCHANGED m_errors
    /\ MtlFrame

\* the end of the material file: return true
MtlEndOfFile ==
    /\ pc = "mtl"
    /\ MtlReturns(mtl)
    /\ UNCHANGED <<m_errors, m_warnings, mtlFile>>
    /\ MtlFrame

\* ------------------------------------------------------------ steal, share
fileNameFromPath(path) == path

\* detail::values and detail::stealValues: the meshes in the table's
\* iteration order, which the container leaves unspecified
RECURSIVE Orders(_)
Orders(keys) ==
    IF keys = {} THEN {<<>>}
    ELSE UNION {{<<k>> \o rest : rest \in Orders(keys \ {k})} : k \in keys}

Snapshot(order) ==
    [positions |-> m_positions, normals |-> m_normals, textureUVs |-> m_textureUVs,
     colors |-> m_colors, meshes |-> [i \in 1..Len(order) |-> m_meshes[order[i]]],
     name |-> fileNameFromPath(m_filePath), taken |-> TRUE]

\* the orders a traversal of m_meshes can take: the container leaves the
\* order unspecified, and keeps it while the table is not modified
Traversals == IF iteration.seen THEN {iteration.order} ELSE Orders(DOMAIN m_meshes)

\* a share() that traverses the table in any order, whatever came before
ShareAnyOrder ==
    /\ pc = "idle"
    /\ \E order \in Orders(DOMAIN m_meshes) :
        /\ snapshot' = Snapshot(order)
        /\ iteration' = [seen |-> TRUE, order |-> order]
    /\ UNCHANGED <<build, m_config, pc, result, loads, m_line, assembler, geometry,
                   m_materials, m_filePath, logger, mtl, mtlFile, faceLines, file, last,
                   earlier>>

\* share()
Share ==
    /\ pc = "idle"
    /\ \E order \in Traversals :
        /\ snapshot' = Snapshot(order)
        /\ iteration' = [seen |-> TRUE, order |-> order]
    /\ UNCHANGED <<build, m_config, pc, result, loads, m_line, assembler, geometry,
                   m_materials, m_filePath, logger, mtl, mtlFile, faceLines, file, last,
                   earlier>>

\* a steal() that returns the snapshot and skips reset()
StealKeepsState ==
    /\ pc = "idle"
    /\ \E order \in Traversals : snapshot' = Snapshot(order)
    /\ iteration' = NotTraversed
    /\ UNCHANGED <<build, m_config, pc, result, loads, m_line, assembler, geometry,
                   m_materials, m_filePath, logger, mtl, mtlFile, faceLines, file, last,
                   earlier>>

\* steal(): the snapshot, then reset()
Steal ==
    /\ pc = "idle"
    /\ \E order \in Traversals : snapshot' = Snapshot(order)
    /\ iteration' = NotTraversed
    /\ m_line' = 0
    /\ m_currentMeshName' = NoName
    /\ m_filePath' = <<>>
    /\ m_positions' = <<>>
    /\ m_normals' = <<>>
    /\ m_textureUVs' = <<>>
    /\ m_colors' = <<>>
    /\ m_meshes' = EmptyMap
    /\ m_errors' = <<>>
    /\ m_warnings' = <<>>
    /\ m_infos' = <<>>
    /\ UNCHANGED <<build, m_config, pc, result, loads, m_smoothShadingEnabled,
                   m_materials, mtl, mtlFile, faceLines, file, last, earlier>>

\* ------------------------------------------------------------ specifications
\* one file of every kind of line, short
Next ==
    \/ \E path \in Paths, opens \in BOOLEAN : Load(path, opens)
    \/ \E b \in BOOLEAN : setShouldTriangulate(b)
    \/ \E l \in {L_v} : PositionLine(l)
    \/ \E l \in {L_vn} : NormalLine(l)
    \/ \E l \in {L_vt} : UVLine(l)
    \/ \E l \in {L_f123, L_fneg, L_f1234} : FaceLine(l)
    \/ \E l \in {L_s1, L_s0} : SmoothShadingLine(l)
    \/ \E l \in {L_ga, L_gb} : GroupLine(l)
    \/ \E l \in {L_mtllib}, opens \in BOOLEAN : MaterialLibLine(l, opens)
    \/ \E l \in {L_usemtl1} : UseMaterialLine(l)
    \/ \E l \in {L_comment, L_blank} : SkipLine(l)
    \/ \E l \in {L_unknown} : UnknownLine(l)
    \/ EndOfFile
    \/ \E l \in {M_newmtl1} : MtlNewMaterial(l)
    \/ \E l \in {M_mapKa} : MtlImageMap(l)
    \/ \E l \in {M_Ka} : MtlValue(l)
    \/ \E l \in {M_comment} : MtlSkip(l)
    \/ \E l \in {M_unknown} : MtlUnknown(l)
    \/ MtlEndOfFile
    \/ Share
    \/ Steal

Init == InitWith(Limit(MaxLines, MaxPositions, MaxFaceLines, MaxLoads, MaxMtlLines))

Spec == Init /\ [][Next]_vars

\* face lines of every syntax and vertex count, with a group line and positions
NextFaces ==
    \/ \E path \in {P_obj}, opens \in {TRUE} : Load(path, opens)
    \/ \E b \in BOOLEAN : setShouldTriangulate(b)
    \/ \E l \in {L_v} : PositionLine(l)
    \/ \E l \in {L_ga} : GroupLine(l)
    \/ \E l \in {L_f123, L_fneg, L_fzero, L_f1234, L_f12345, L_qvt, L_qvn, L_qvtvn} :
            FaceLine(l)
    \/ EndOfFile

InitFaces ==
    InitWith(Limit(FacesMaxLines, FacesMaxPositions, FacesMaxFaceLines, MaxLoads, 0))

SpecFaces == InitFaces /\ [][NextFaces]_vars

\* group, object and smooth-shading lines around face lines
NextGroups ==
    \/ \E path \in {P_obj}, opens \in {TRUE} : Load(path, opens)
    \/ \E l \in {L_v} : PositionLine(l)
    \/ \E l \in {L_ga, L_gb, L_oa, L_ggroup0} : GroupLine(l)
    \/ \E l \in {L_s1, L_s0, L_son, L_soff, L_sword} : SmoothShadingLine(l)
    \/ \E l \in {L_f123} : FaceLine(l)
    \/ EndOfFile

InitGroups == InitWith(Limit(GroupsMaxLines, 1, GroupsMaxFaceLines, MaxLoads, 0))

SpecGroups == InitGroups /\ [][NextGroups]_vars

\* material libraries and material references
NextMaterials ==
    \/ \E path \in {P_obj}, opens \in {TRUE} : Load(path, opens)
    \/ \E l \in {L_v} : PositionLine(l)
    \/ \E l \in {L_ga, L_gb} : GroupLine(l)
    \/ \E l \in {L_mtllib}, opens \in BOOLEAN : MaterialLibLine(l, opens)
    \/ \E l \in {L_usemtl1, L_usemtl2} : UseMaterialLine(l)
    \/ \E l \in {M_newmtl1, M_newmtl2} : MtlNewMaterial(l)
    \/ \E l \in {M_Ka, M_Ns, M_KaBad} : MtlValue(l)
    \/ MtlEndOfFile
    \/ EndOfFile

InitMaterials == InitWith(Limit(MaterialsMaxLines, 1, 0, MaxLoads, MaterialsMaxMtlLines))

SpecMaterials == InitMaterials /\ [][NextMaterials]_vars

\* numeric lines of every arity, comments, blank and unknown lines
NextLines ==
    \/ \E path \in {P_obj}, opens \in {TRUE} : Load(path, opens)
    \/ \E l \in {L_v, L_v4, L_vshort, L_vbad} : PositionLine(l)
    \/ \E l \in {L_vn, L_vnshort} : NormalLine(l)
    \/ \E l \in {L_vt, L_vt3, L_vtbad} : UVLine(l)
    \/ \E l \in {L_ga} : GroupLine(l)
    \/ \E l \in {L_f123} : FaceLine(l)
    \/ \E l \in {L_comment, L_blank} : SkipLine(l)
    \/ \E l \in {L_unknown, L_hash, L_hashbare, L_word} : UnknownLine(l)
    \/ \E l \in {L_mtllib}, opens \in {TRUE} : MaterialLibLine(l, opens)
    \/ \E l \in {M_newmtl1} : MtlNewMaterial(l)
    \/ \E l \in {M_comment, M_blank} : MtlSkip(l)
    \/ \E l \in {M_unknown, M_hash} : MtlUnknown(l)
    \/ MtlEndOfFile
    \/ EndOfFile

InitLines ==
    InitWith(Limit(LinesMaxLines, LinesMaxPositions, 1, MaxLoads, LinesMaxMtlLines))

SpecLines == InitLines /\ [][NextLines]_vars

\* two calls of load on one loader, with steal and share around them
NextReload ==
    \/ \E path \in {P_obj}, opens \in {TRUE} : Load(path, opens)
    \/ \E l \in {L_v} : PositionLine(l)
    \/ \E l \in {L_ga, L_gb} : GroupLine(l)
    \/ \E l \in {L_f123} : FaceLine(l)
    \/ \E l \in {L_s1} : SmoothShadingLine(l)
    \/ EndOfFile
    \/ Share
    \/ Steal

InitReload == InitWith(Limit(ReloadMaxLines, 1, 1, ReloadMaxLoads, 0))

SpecReload == InitReload /\ [][NextReload]_vars

\* one material library with texture lines of every kind
NextTextures ==
    \/ \E path \in {P_obj}, opens \in {TRUE} : Load(path, opens)
    \/ \E l \in {L_v} : PositionLine(l)
    \/ \E l \in {L_mtllib}, opens \in {TRUE} : MaterialLibLine(l, opens)
    \/ \E l \in {M_newmtl1, M_newmtl2} : MtlNewMaterial(l)
    \/ \E l \in {M_mapKa, M_mapKd, M_mapKs, M_mapNs, M_mapd} : MtlImageMap(l)
    \/ MtlEndOfFile
    \/ EndOfFile

InitTextures == InitWith(Limit(TexturesMaxLines, 1, 0, MaxLoads, TexturesMaxMtlLines))

SpecTextures == InitTextures /\ [][NextTextures]_vars

\* -------------------------------------------------------------- properties
\* vocabulary of the properties
ProcessEnded == pc \in {"abort", "crash", "hang"}
LineTaken == file' # file
TakenLine == file'[Len(file')]
VertexTokens(l) == FaceTokens(l).verts
AfterKeyword(l, n) == trim(DropN(l, n))
Triangle(a, b, c) == Face(<<a, b, c>>, <<>>, <<>>, <<>>)
AllFaces == UNION {{m_meshes[k].faces[i] : i \in 1..Len(m_meshes[k].faces)} : k \in DOMAIN m_meshes}
FaceTotal == Cardinality({<<k, i>> \in (DOMAIN m_meshes) \X (1..(2 * limit.faces)) :
                            i <= Len(m_meshes[k].faces)})

\* C1: once a face line holding a negative position token t has been
\* processed, the face parsed from it holds L - |t| at that vertex, L being
\* the number of positions parsed on the lines before it.
C1_NegativeTokenIsRelative ==
    last.kind = "FACE" =>
        \A i \in 1..Len(VertexTokens(last.line)) :
            VertexTokens(last.line)[i].v < 0 =>
                /\ ~ProcessEnded
                /\ numVertices(last.face) >= i
                /\ last.face.positionIndices[i]
                        = Len(m_positions) + VertexTokens(last.line)[i].v

\* C2: the file of three position lines and the line f 1 2 3 loads, and holds
\* one face, the triangle [0,1,2]; a positive position token t is stored as
\* t - 1.
C2_ThreePositionsOneTriangle ==
    /\ (file = <<L_v, L_v, L_v, L_f123>> /\ last.kind \in {"FACE", "EOF"}) =>
            /\ ~ProcessEnded
            /\ result \in {"none", "ok"}
            /\ AllFaces = {Triangle(0, 1, 2)}
            /\ FaceTotal = 1
    /\ (file = <<L_v, L_v, L_v, L_f123>> /\ last.kind = "EOF") => result = "ok"
    /\ (last.kind = "FACE" /\ last.face # EmptyFace) =>
            \A i \in 1..Len(VertexTokens(last.line)) :
                VertexTokens(last.line)[i].v > 0 =>
                    last.face.positionIndices[i] = VertexTokens(last.line)[i].v - 1

\* C3: f -1 -2 -3 taken when exactly 3 positions have been parsed gives a
\* face with the position indices [0,1,2].
C3_RelativeTriangle ==
    (last.kind = "FACE" /\ last.line = L_fneg /\ Len(m_positions) = 3) =>
        /\ ~ProcessEnded
        /\ last.face.positionIndices = <<0, 1, 2>>

\* the vertices a, b, c of a face, an empty attribute sequence staying empty
Corner(seq, a, b, c) == IF seq = <<>> THEN <<>> ELSE <<seq[a], seq[b], seq[c]>>
Corners(f, a, b, c) ==
    Face(Corner(f.positionIndices, a, b, c), Corner(f.normalIndices, a, b, c),
         Corner(f.uvIndices, a, b, c), Corner(f.colorIndices, a, b, c))
FacesBefore(k) == IF contains(m_meshes, k) THEN m_meshes[k].faces ELSE <<>>

\* C4: with triangulation enabled, a face line whose face has 4 vertices adds
\* to the current mesh, after the faces it holds, the triangle of the
\* vertices 0,1,2 and then the triangle of the vertices 0,2,3, the normal and
\* texcoord indices split the same way and empty where the face has none;
\* no other mesh changes.
C4_QuadIsSplitAlongFixedDiagonal ==
    [][(/\ LineTaken
        /\ last'.kind = "FACE"
        /\ m_config.triangulate
        /\ numVertices(last'.face) = 4
        /\ ~ProcessEnded')
        => /\ contains(m_meshes', m_currentMeshName)
           /\ m_meshes'[m_currentMeshName].faces
                = FacesBefore(m_currentMeshName)
                    \o <<Corners(last'.face, 1, 2, 3), Corners(last'.face, 1, 3, 4)>>
           /\ \A k \in DOMAIN m_meshes \ {m_currentMeshName} :
                    contains(m_meshes', k) /\ m_meshes'[k] = m_meshes[k]
           /\ DOMAIN m_meshes' = DOMAIN m_meshes \cup {m_currentMeshName}]_vars

\* C4's case: a quad with normals and no texcoords was split into a mesh
\* that already held a face
C4_Witness ==
    /\ last.kind = "FACE"
    /\ m_config.triangulate
    /\ numVertices(last.face) = 4
    /\ last.face.normalIndices # <<>>
    /\ last.face.uvIndices = <<>>
    /\ pc = "obj"
    /\ contains(m_meshes, m_currentMeshName)
    /\ Len(m_meshes[m_currentMeshName].faces) >= 3

\* C5: a face line with 5 vertices, taken while the current mesh exists,
\* makes load end with a failure, whatever the triangulate option is, and a
\* load that succeeds leaves no 5-vertex face in a mesh.
C5_FiveVerticesAreFatal ==
    [][(/\ LineTaken
        /\ last'.kind = "FACE"
        /\ numVertices(last'.face) = 5
        /\ contains(m_meshes, m_currentMeshName))
        => /\ pc' = "idle"
           /\ result' \in {"fail", "throw"}
           /\ m_meshes' = m_meshes]_vars

\* C6: a g or o line naming a mesh of the table makes it the current mesh
\* and leaves the table, its faces and material included, as it was.
C6_GroupReentryKeepsFaces ==
    [][(LineTaken /\ identifier(TakenLine) \in {"GROUP", "NAMED_OBJECT"}
            /\ contains(m_meshes, AfterKeyword(TakenLine, 1)))
        => /\ m_meshes' = m_meshes
           /\ m_currentMeshName' = AfterKeyword(TakenLine, 1)]_vars

\* the flag value a smooth-shading line asks for
AsksOn(l) == AfterKeyword(l, 1) \in {<<"1">>, ON}
HoldsFaces == contains(m_meshes, m_currentMeshName) /\ m_meshes[m_currentMeshName].faces # <<>>

\* C7, for the lines s 1 and s 0 taken while the current mesh exists: the
\* line adds a mesh and makes it current if and only if it changes the flag
\* and the current mesh holds a face; otherwise table and current name stay;
\* a change sets the flag.
C7_SmoothingBoundary ==
    [][(LineTaken /\ TakenLine \in {L_s1, L_s0} /\ contains(m_meshes, m_currentMeshName))
        => LET changes == AsksOn(TakenLine) # m_smoothShadingEnabled
           IN /\ ~ProcessEnded'
              /\ (changes /\ HoldsFaces)
                    => /\ m_currentMeshName' \in DOMAIN m_meshes' \ DOMAIN m_meshes
                       /\ m_meshes'[m_currentMeshName'].faces = <<>>
              /\ ~(changes /\ HoldsFaces)
                    => (m_meshes' = m_meshes /\ m_currentMeshName' = m_currentMeshName)
              /\ changes => m_smoothShadingEnabled' = AsksOn(TakenLine)]_vars

\* how far a file is along positions, s 1, faces, s 0, faces
RECURSIVE Stage(_)
Stage(f) ==
    IF f = <<>> THEN 0
    ELSE LET before == Stage(SubSeq(f, 1, Len(f) - 1))
             kind == identifier(f[Len(f)])
             l == f[Len(f)]
         IN IF before \in {0, 1} /\ kind = "POSITION" THEN 1
            ELSE IF before = 1 /\ l = L_s1 THEN 2
            ELSE IF before \in {2, 3} /\ kind = "FACE" THEN 3
            ELSE IF before = 3 /\ l = L_s0 THEN 4
            ELSE IF before \in {4, 5} /\ kind = "FACE" THEN 5
            ELSE 6

FacesWhileOn(f) == Cardinality({i \in 1..Len(f) : Stage(SubSeq(f, 1, i)) = 3})

\* C8: with triangulation enabled a file of positions, s 1, faces, s 0,
\* faces is loaded to its end, and then holds at least two meshes, one of
\* them with exactly the faces parsed while the toggle was on.
C8_SmoothingGroupsSplitMeshes ==
    (m_config.triangulate /\ Stage(file) \in 1..5) =>
        /\ ~ProcessEnded
        /\ result \in {"none", "ok"}
        /\ (Stage(file) = 5 /\ last.kind = "EOF") =>
                /\ result = "ok"
                /\ Cardinality(DOMAIN m_meshes) >= 2
                /\ \E k \in DOMAIN m_meshes :
                        Len(m_meshes[k].faces) = FacesWhileOn(file)

\* C9: a usemtl line whose name the material table lacks, or taken while
\* there is no mesh, ends load with a failure and an error in the log.
C9_UnknownMaterialIsFatal ==
    (last.kind = "USE_MATERIAL"
        /\ (~contains(m_materials, AfterKeyword(last.line, 6)) \/ m_meshes = EmptyMap))
        => (pc = "idle" /\ result = "fail" /\ existsError)

\* C10: a usemtl line whose name the material table holds, taken while there
\* is a current mesh, makes the current mesh's material the table's entry of
\* that name and changes nothing else of the mesh table.
C10_UseMaterialBindsCurrentMeshOnly ==
    [][(LineTaken /\ identifier(TakenLine) = "USE_MATERIAL"
            /\ contains(m_materials, AfterKeyword(TakenLine, 6))
            /\ m_meshes # EmptyMap)
        => /\ pc' = "obj"
           /\ contains(m_meshes, m_currentMeshName)
           /\ DOMAIN m_meshes' = DOMAIN m_meshes
           /\ m_meshes'[m_currentMeshName].material
                = m_materials[AfterKeyword(TakenLine, 6)]
           /\ m_meshes'[m_currentMeshName].material[1].name = AfterKeyword(TakenLine, 6)
           /\ m_meshes'[m_currentMeshName].faces = m_meshes[m_currentMeshName].faces
           /\ m_meshes'[m_currentMeshName].name = m_meshes[m_currentMeshName].name
           /\ \A k \in DOMAIN m_meshes \ {m_currentMeshName} : m_meshes'[k] = m_meshes[k]]_vars

\* C10's case: of two meshes the current one took a material whose fields
\* the material file had set, the other one has none
C10_Witness ==
    /\ last.kind = "USE_MATERIAL"
    /\ pc = "obj"
    /\ contains(m_meshes, m_currentMeshName)
    /\ m_meshes[m_currentMeshName].material # nullptr
    /\ contains(m_materials, AfterKeyword(last.line, 6))
    /\ m_meshes[m_currentMeshName].material = m_materials[AfterKeyword(last.line, 6)]
    /\ m_meshes[m_currentMeshName].material[1].ambient # Vec3(-1)
    /\ \E k \in DOMAIN m_meshes : k # m_currentMeshName /\ m_meshes[k].material = nullptr

\* the material names the newmtl lines of a material file define
DefinedBy(lines) ==
    {ReadWord(ReadWord(Stream(lines[i])).st).val :
        i \in {j \in 1..Len(lines) : mtlIdentifier(lines[j]) = "NEW_MATERIAL"}}
MtllibLines == Cardinality({i \in 1..Len(file) : identifier(file[i]) = "MATERIAL_LIB"})

\* C11: once an mtllib line has been processed, the material table of the
\* OBJ loader holds exactly the materials its material file defined, each
\* under its own name; nothing of an earlier mtllib stays.
C11_MtllibReplacesMaterialTable ==
    (last.kind = "MATERIAL_LIB" /\ pc = "obj") =>
        /\ DOMAIN m_materials = DefinedBy(mtlFile)
        /\ \A k \in DOMAIN m_materials :
                m_materials[k] # nullptr /\ m_materials[k][1].name = k

\* C11's case: the second mtllib of a file defined m2 only, and m1, which
\* the first one had defined and a mesh still uses, is gone from the table
C11_Witness ==
    /\ last.kind = "MATERIAL_LIB"
    /\ pc = "obj"
    /\ MtllibLines = 2
    /\ DOMAIN m_materials = {<<"m", "2">>}
    /\ \E k \in DOMAIN m_meshes :
            m_meshes[k].material # nullptr /\ m_meshes[k].material[1].name = <<"m", "1">>

LinesOfKind(kinds) == {i \in 1..Len(file) : identifier(file[i]) \in kinds}
LoadReturns == pc \in {"obj", "mtl"} /\ pc' = "idle" /\ result' \in {"ok", "fail"}

\* C12: a load that returns success has parsed at least one position, and a
\* load that returns after taking no v line returns failure with an error in
\* the log, whatever normal, texcoord and face lines it took.
C12_NoPositionsIsFailure ==
    [][LoadReturns =>
        /\ result' = "ok" => (m_positions' # <<>> /\ LinesOfKind({"POSITION"})' # {})
        /\ LinesOfKind({"POSITION"})' = {} =>
                /\ result' = "fail"
                /\ m_positions' = <<>>
                /\ m_errors' # <<>>
                /\ m_infos' = <<>>]_vars

\* C12's case: a file of a face line and a normal or texcoord line, no v
\* line, was read to its end, the face is in a mesh, and load has failed
\* with the error of the position check
C12_Witness ==
    /\ last.kind = "EOF"
    /\ LinesOfKind({"POSITION"}) = {}
    /\ LinesOfKind({"FACE"}) # {}
    /\ LinesOfKind({"NORMAL", "UV"}) # {}
    /\ AllFaces # {}
    /\ pc = "idle"
    /\ result = "fail"
    /\ \E i \in 1..Len(m_errors) : m_errors[i].msg = "no positions"

\* the space-separated fields of a line
RECURSIVE Fields(_)
Fields(s) ==
    LET t == trimLeft(s)
    IN IF t = <<>> THEN <<>> ELSE <<TakeWord(t)>> \o Fields(DropN(t, Len(TakeWord(t))))
IsNumber(w) ==
    LET d == IF w # <<>> /\ Head(w) \in {"-", "+"} THEN Tail(w) ELSE w
    IN d # <<>> /\ \A i \in 1..Len(d) : d[i] \in Digits
Arity(kind) == IF kind = "UV" THEN 2 ELSE 3
\* a v, vn or vt line with exactly the fields of its kind, all numbers
FieldsOK(l) ==
    /\ Len(Fields(l)) = Arity(identifier(l)) + 1
    /\ \A i \in 2..Len(Fields(l)) : IsNumber(Fields(l)[i])
SequenceOf(kind) ==
    IF kind = "POSITION" THEN m_positions
    ELSE IF kind = "NORMAL" THEN m_normals ELSE m_textureUVs

\* C13: once a v, vn or vt line whose fields are not exactly the numbers of
\* its arity has been processed, load has returned failure, the sequence of
\* its kind holds only what the well-formed lines before it gave, and the
\* log holds an error with the 0-based index of the line.
C13_MalformedNumericLineIsFatal ==
    (last.kind \in {"POSITION", "NORMAL", "UV"} /\ ~FieldsOK(last.line)) =>
        /\ pc = "idle"
        /\ result = "fail"
        /\ Len(SequenceOf(last.kind))
                = Cardinality({i \in LinesOfKind({last.kind}) : FieldsOK(file[i])})
        /\ \E i \in 1..Len(m_errors) : m_errors[i].line = Len(file) - 1

HasZeroToken(l) ==
    \E i \in 1..Len(VertexTokens(l)) :
        \/ VertexTokens(l)[i].v = 0
        \/ FaceTokens(l).syntax \in {"v/vt", "v/vt/vn"} /\ VertexTokens(l)[i].vt = 0
        \/ FaceTokens(l).syntax \in {"v//vn", "v/vt/vn"} /\ VertexTokens(l)[i].vn = 0

\* C14: a face line with a zero-valued index makes load return failure and
\* stores nothing in the mesh table.
C14_ZeroIndexIsFatal ==
    [][(LineTaken /\ identifier(TakenLine) = "FACE" /\ HasZeroToken(TakenLine))
        => /\ pc' = "idle"
           /\ result' = "fail"
           /\ m_meshes' = m_meshes]_vars

\* the indices a face line of positive tokens names, 0-based
TokensAsParsed(l) ==
    LET t == FaceTokens(l)
        n == Len(t.verts)
    IN Face([i \in 1..n |-> t.verts[i].v - 1],
            IF t.syntax \in {"v//vn", "v/vt/vn"} THEN [i \in 1..n |-> t.verts[i].vn - 1]
            ELSE <<>>,
            IF t.syntax \in {"v/vt", "v/vt/vn"} THEN [i \in 1..n |-> t.verts[i].vt - 1]
            ELSE <<>>,
            <<>>)
AllPositive(l) ==
    \A i \in 1..Len(VertexTokens(l)) :
        /\ VertexTokens(l)[i].v > 0
        /\ FaceTokens(l).syntax \in {"v/vt", "v/vt/vn"} => VertexTokens(l)[i].vt > 0
        /\ FaceTokens(l).syntax \in {"v//vn", "v/vt/vn"} => VertexTokens(l)[i].vn > 0

\* C15: with triangulation disabled, a face line of 3 or 4 vertices adds to
\* the current mesh, after the faces it holds, one face with the vertices
\* and the index sequences parsed from the line; no other mesh changes.
C15_UntriangulatedFaceIsStoredAsParsed ==
    [][(/\ LineTaken
        /\ last'.kind = "FACE"
        /\ ~m_config.triangulate
        /\ numVertices(last'.face) \in {3, 4}
        /\ ~ProcessEnded')
        => /\ pc' = "obj"
           /\ contains(m_meshes', m_currentMeshName)
           /\ m_meshes'[m_currentMeshName].faces
                = FacesBefore(m_currentMeshName) \o <<last'.face>>
           /\ numVertices(last'.face) = Len(VertexTokens(TakenLine))
           /\ AllPositive(TakenLine) => last'.face = TokensAsParsed(TakenLine)
           /\ \A k \in DOMAIN m_meshes \ {m_currentMeshName} :
                    contains(m_meshes', k) /\ m_meshes'[k] = m_meshes[k]
           /\ DOMAIN m_meshes' = DOMAIN m_meshes \cup {m_currentMeshName}]_vars

\* C15's case: with triangulation disabled a quad with texcoords was stored
\* whole behind a triangle of the same mesh
C15_Witness ==
    /\ last.kind = "FACE"
    /\ ~m_config.triangulate
    /\ pc = "obj"
    /\ numVertices(last.face) = 4
    /\ last.face.uvIndices # <<>>
    /\ contains(m_meshes, m_currentMeshName)
    /\ Len(m_meshes[m_currentMeshName].faces) = 2
    /\ numVertices(m_meshes[m_currentMeshName].faces[1]) = 3
    /\ m_meshes[m_currentMeshName].faces[2] = last.face

\* C16: a load that read to its end the same file as the load before it on
\* the same loader gives the same result, the same geometry and meshes and
\* the same diagnostics.
C16_LoadDependsOnFileOnly ==
    (loads = 2 /\ pc = "idle" /\ last.kind = "EOF" /\ earlier.returned
        /\ file = earlier.file /\ result \in {"ok", "fail"} /\ ~snapshot.taken)
        => /\ result = earlier.result
           /\ m_positions = earlier.positions
           /\ m_normals = earlier.normals
           /\ m_textureUVs = earlier.textureUVs
           /\ m_meshes = earlier.meshes
           /\ m_errors = earlier.errors
           /\ m_warnings = earlier.warnings

LoaderState ==
    <<m_config, pc, result, m_line, m_currentMeshName, m_smoothShadingEnabled,
      m_positions, m_normals, m_textureUVs, m_colors, m_meshes, m_materials, m_filePath,
      m_errors, m_warnings, m_infos, mtl>>

\* C17: share() changes no state of the loader, and a share() that follows
\* a share() with no load or steal between them returns the snapshot the
\* first one returned, the meshes in the same order.
C17_ShareIsIdempotent ==
    [][(iteration'.seen /\ (snapshot' # snapshot \/ iteration' # iteration))
        => /\ LoaderState' = LoaderState
           /\ snapshot'.positions = m_positions
           /\ snapshot'.normals = m_normals
           /\ snapshot'.textureUVs = m_textureUVs
           /\ {snapshot'.meshes[i] : i \in 1..Len(snapshot'.meshes)}
                = {m_meshes[k] : k \in DOMAIN m_meshes}
           /\ iteration.seen => snapshot' = snapshot]_vars

\* C17's case: share() has returned the two meshes of a loaded file, and the
\* loader still holds them
C17_Witness ==
    /\ iteration.seen
    /\ snapshot.taken
    /\ result = "ok"
    /\ Len(snapshot.meshes) = 2
    /\ Cardinality(DOMAIN m_meshes) = 2
    /\ snapshot.positions = m_positions
    /\ m_positions # <<>>

\* steps of steal() and of share(), the only calls besides load and
\* setShouldTriangulate an idle loader takes
StealStep ==
    pc = "idle" /\ loads' = loads /\ m_config' = m_config /\ snapshot'.taken
        /\ ~iteration'.seen
ShareStep ==
    pc = "idle" /\ loads' = loads /\ m_config' = m_config /\ snapshot'.taken
        /\ iteration'.seen
EmptySnapshot(d) ==
    d.positions = <<>> /\ d.normals = <<>> /\ d.textureUVs = <<>> /\ d.meshes = <<>>
MeshesOf(d) == {d.meshes[i] : i \in 1..Len(d.meshes)}
\* no load since the last steal: only reset() clears m_filePath
Stolen == loads > 0 /\ pc = "idle" /\ m_filePath = <<>>

\* C18: a steal() after a successful load returns the loaded positions,
\* normals, texcoords and meshes and leaves geometry, mesh table and
\* diagnostics empty; a share() or steal() after it, with no load between,
\* returns an empty snapshot.
C18_StealReturnsAllAndResets ==
    [][/\ StealStep =>
            /\ (result = "ok" /\ ~Stolen) =>
                    /\ snapshot'.positions = m_positions /\ m_positions # <<>>
                    /\ snapshot'.normals = m_normals
                    /\ snapshot'.textureUVs = m_textureUVs
                    /\ MeshesOf(snapshot') = {m_meshes[k] : k \in DOMAIN m_meshes}
                    /\ Len(snapshot'.meshes) = Cardinality(DOMAIN m_meshes)
            /\ m_positions' = <<>> /\ m_normals' = <<>> /\ m_textureUVs' = <<>>
            /\ m_meshes' = EmptyMap
            /\ m_errors' = <<>> /\ m_warnings' = <<>> /\ m_infos' = <<>>
            /\ m_filePath' = <<>>
       /\ ((StealStep \/ ShareStep) /\ Stolen) => EmptySnapshot(snapshot')]_vars

\* C18's case: after a successful load steal() has returned the positions
\* and a mesh with its face, and the loader holds nothing
C18_Witness ==
    /\ Stolen
    /\ result = "ok"
    /\ snapshot.taken
    /\ snapshot.positions # <<>>
    /\ \E i \in 1..Len(snapshot.meshes) : snapshot.meshes[i].faces # <<>>
    /\ m_positions = <<>>
    /\ m_meshes = EmptyMap
    /\ m_infos = <<>>

Within(indices, seq) == \A i \in 1..Len(indices) : indices[i] \in 0..(Len(seq) - 1)

\* C19: in a snapshot steal() or share() returns after a successful load,
\* every position, normal and texcoord index of every face of every mesh
\* lies within the snapshot's sequence of that kind.
C19_SnapshotIndicesInBounds ==
    [][((StealStep \/ ShareStep) /\ result = "ok" /\ ~Stolen)
        => \A i \in 1..Len(snapshot'.meshes) :
            \A j \in 1..Len(snapshot'.meshes[i].faces) :
                LET f == snapshot'.meshes[i].faces[j]
                IN /\ Within(f.positionIndices, snapshot'.positions)
                   /\ Within(f.normalIndices, snapshot'.normals)
                   /\ Within(f.uvIndices, snapshot'.textureUVs)]_vars

MtlLineTaken == mtlFile' # mtlFile /\ mtlFile' # <<>>
MtlTakenLine == mtlFile'[Len(mtlFile')]
BlankOrComment(l) == l = <<>> \/ Head(l) = "#"
ObjKeywords ==
    {<<"v">>, <<"v", "n">>, <<"v", "t">>, <<"f">>, <<"g">>, <<"o">>, <<"s">>,
     <<"m", "t", "l", "l", "i", "b">>, <<"u", "s", "e", "m", "t", "l">>}
NoKeyword(l) == l # <<>> /\ Head(l) # "#" /\ (Len(Fields(l)) = 1 \/ Fields(l)[1] \notin ObjKeywords)

\* C20: an empty line and every line starting with # is skipped, in the OBJ
\* file and in the material file: the loop goes on, and diagnostics,
\* geometry, meshes and materials stay as they are; a bare keyword and a
\* line of no keyword are unknown lines, which record a warning.
C20_LineClassification ==
    [][/\ (LineTaken /\ BlankOrComment(TakenLine)) =>
            /\ last'.kind = "SKIP"
            /\ pc' = "obj"
            /\ UNCHANGED <<geometry, assembler, m_materials, logger>>
       /\ (LineTaken /\ NoKeyword(TakenLine)) =>
            /\ last'.kind = "UNKNOWN"
            /\ pc' = "obj"
            /\ Len(m_warnings') = Len(m_warnings) + 1
            /\ UNCHANGED <<geometry, assembler, m_materials, m_errors>>
       /\ (MtlLineTaken /\ BlankOrComment(MtlTakenLine)) =>
            /\ pc' = "mtl"
            /\ mtl'.m_materials = mtl.m_materials
            /\ UNCHANGED <<geometry, assembler, m_materials, logger>>]_vars

\* C21: no line makes load loop forever, and a smooth-shading line that
\* allocates an anonymous mesh leaves every mesh of the table as it was.
C21_AnonymousMeshAllocationTerminates ==
    [][LineTaken =>
        /\ pc' # "hang"
        /\ identifier(TakenLine) = "SMOOTH_SHADING" =>
                \A k \in DOMAIN m_meshes :
                    contains(m_meshes', k) /\ m_meshes'[k] = m_meshes[k]]_vars

\* the table, current name and flag a smooth-shading line l can leave
SmoothOutcomes(l) ==
    {<<S.meshes, S.cur, S.enabled>> :
        S \in {T \in parseSmoothShading(l, m_meshes, m_currentMeshName,
                                        m_smoothShadingEnabled) : T.tag = "ret"}}

\* C22: s on leaves mesh table, current mesh name and smoothing flag as s 1
\* would from the same state, s off as s 0 would, and a toggle word that is
\* neither records a warning and changes none of the three.
C22_WordToggleEqualsNumericToggle ==
    [][(LineTaken /\ ~ProcessEnded') =>
        /\ TakenLine = L_son => <<m_meshes', m_currentMeshName', m_smoothShadingEnabled'>>
                                    \in SmoothOutcomes(L_s1)
        /\ TakenLine = L_soff => <<m_meshes', m_currentMeshName', m_smoothShadingEnabled'>>
                                    \in SmoothOutcomes(L_s0)
        /\ TakenLine = L_sword =>
                /\ UNCHANGED <<m_meshes, m_currentMeshName, m_smoothShadingEnabled>>
                /\ Len(m_warnings') = Len(m_warnings) + 1]_vars

\* C23: a face line taken while the mesh table holds no mesh of the current
\* name makes load return failure with an error in the log, and the table is
\* left as it was.
C23_FaceWithoutMeshIsFatal ==
    [][(LineTaken /\ identifier(TakenLine) = "FACE"
            /\ ~contains(m_meshes, m_currentMeshName)) =>
        /\ pc' = "idle" /\ result' = "fail"
        /\ Len(m_errors') > Len(m_errors)
        /\ m_meshes' = m_meshes]_vars

\* the texture slot a texture keyword names
OwnSlot(l) ==
    CASE starts_with(l, <<"m", "a", "p", "_", "K", "a", " ">>) -> "ambientMap"
      [] starts_with(l, <<"m", "a", "p", "_", "K", "d", " ">>) -> "diffuseMap"
      [] starts_with(l, <<"m", "a", "p", "_", "K", "s", " ">>) -> "specularMap"
      [] starts_with(l, <<"m", "a", "p", "_", "N", "s", " ">>) -> "roughnessMap"
      [] starts_with(l, <<"m", "a", "p", "_", "d", " ">>) -> "alphaMap"
TextureSlots == {"ambientMap", "diffuseMap", "specularMap", "roughnessMap", "alphaMap"}
TextureKinds == {"AMBIENT_MAP", "DIFFUSE_MAP", "SPECULAR_MAP", "ROUGHNESS_MAP", "ALPHA_MAP"}
CurrentMaterial == mtl.m_materials[mtl.m_currentMaterial][1]
HasCurrentMaterial ==
    /\ contains(mtl.m_materials, mtl.m_currentMaterial)
    /\ mtl.m_materials[mtl.m_currentMaterial] # nullptr

\* C24: a texture line taken while there is a current material puts its image
\* into the slot its keyword names and leaves the other four slots of the
\* material as they were; a warning is recorded exactly when that slot held
\* an image already.
C24_TextureLineWritesOwnSlotOnly ==
    [][(MtlLineTaken /\ mtlIdentifier(MtlTakenLine) \in TextureKinds
            /\ HasCurrentMaterial /\ pc' = "mtl") =>
        /\ HasCurrentMaterial'
        /\ mtl'.m_currentMaterial = mtl.m_currentMaterial
        /\ CurrentMaterial'[OwnSlot(MtlTakenLine)] = <<[name |-> AfterKeyword(MtlTakenLine,
                                                        Len(Fields(MtlTakenLine)[1]))]>>
        /\ \A slot \in TextureSlots \ {OwnSlot(MtlTakenLine)} :
                CurrentMaterial'[slot] = CurrentMaterial[slot]
        /\ (Len(m_warnings') = Len(m_warnings) + 1)
                <=> (CurrentMaterial[OwnSlot(MtlTakenLine)] # nullptr)]_vars

LoadFailed == pc = "idle" /\ result = "fail"
ValueKinds == {"AMBIENT", "DIFFUSE", "SPECULAR", "ROUGHNESS", "ALPHA"}
MalformedValue(l) ==
    /\ mtlIdentifier(l) \in ValueKinds
    /\ LET n == IF mtlIdentifier(l) \in {"ROUGHNESS", "ALPHA"} THEN 1 ELSE 3
       IN Len(Fields(l)) < n + 1 \/ \E i \in 2..(n + 1) : ~IsNumber(Fields(l)[i])
DuplicateNewMaterial(l) ==
    /\ mtlIdentifier(l) = "NEW_MATERIAL"
    /\ contains(mtl.m_materials, AfterKeyword(l, 6))

\* C25: an mtllib line whose material file is not read (no .mtl extension, or
\* it cannot be opened), a Ka/Kd/Ks/Ns/d line of the material file with a
\* malformed number, and a newmtl line whose name the table holds already,
\* each make load return failure at that line.
C25_MaterialFileFailureStopsLoad ==
    [][/\ (LineTaken /\ identifier(TakenLine) = "MATERIAL_LIB" /\ pc' # "mtl")
            => LoadFailed'
       /\ (MtlLineTaken /\ (MalformedValue(MtlTakenLine) \/ DuplicateNewMaterial(MtlTakenLine)))
            => LoadFailed']_vars

LoadReturnsFailure ==
    /\ loads' = loads + 1 \/ pc \in {"obj", "mtl"}
    /\ LoadFailed'

\* C26: whenever load returns failure, the log holds at least one error.
C26_FailureIsLogged ==
    [][LoadReturnsFailure => existsError']_vars

\* C27: after every line of a material file, each entry of the material
\* parser's table is a material named as its key, and the line has not gone
\* through a missing material.
C27_MaterialTableEntriesAreNamedMaterials ==
    [][MtlLineTaken =>
        /\ pc' # "crash"
        /\ \A k \in DOMAIN mtl'.m_materials :
                mtl'.m_materials[k] # nullptr /\ mtl'.m_materials[k][1].name = k]_vars

====
